---- MODULE Spec2Model ----
(***************************************************************************)
(* MenuAI backend: the heuristic menu-line extractor                       *)
(* (backend/app/extractor.py, extract_items) as a state machine.           *)
(*                                                                         *)
(* A text is a sequence of characters.  An ASCII character is the          *)
(* one-character string of itself; a non-ASCII character is written by a   *)
(* name: "RUPEE" U+20B9, "EURO" U+20AC, "POUND" U+00A3, "BULLET" U+2022,   *)
(* "ENDASH" U+2013, "EMDASH" U+2014, "TAB" U+0009, "NBSP" U+00A0,          *)
(* "DEVA1"/"DEVA2" the Devanagari digits U+0967/U+0968 (category Nd),      *)
(* "DEVAKA" the Devanagari letter U+0915 (category Lo, uncased).           *)
(***************************************************************************)
EXTENDS Integers, Sequences, FiniteSets, TLC

\* ------------------------------------------------------------------ bounds

\* longest input list drawn from MenuLines
MaxLines == 2
\* longest generated single line over GenAlphabet
MaxLen == 4
\* longest input list of parse_lines drawn from ParserLines
MaxParseLines == 3
\* most jobs created, most items of one confirm request, most regenerate calls
MaxJobs == 2
MaxItems == 2
MaxRegens == 2

\* --------------------------------------------------------------- characters

LowerChars ==
    <<"a", "b", "c", "d", "e", "f", "g", "h", "i", "j", "k", "l", "m",
      "n", "o", "p", "q", "r", "s", "t", "u", "v", "w", "x", "y", "z">>

UpperChars ==
    <<"A", "B", "C", "D", "E", "F", "G", "H", "I", "J", "K", "L", "M",
      "N", "O", "P", "Q", "R", "S", "T", "U", "V", "W", "X", "Y", "Z">>

LowerSet == {LowerChars[k] : k \in DOMAIN LowerChars}
UpperSet == {UpperChars[k] : k \in DOMAIN UpperChars}
UncasedLetters == {"DEVAKA"}
AsciiDigits == {"0", "1", "2", "3", "4", "5", "6", "7", "8", "9"}
UnicodeDigits == {"DEVA1", "DEVA2"}
SpaceChars == {" ", "TAB", "NBSP"}

\* str.lower() of one character
ToLower ==
    [c \in UpperSet |-> LowerChars[CHOOSE k \in DOMAIN UpperChars : UpperChars[k] = c]]

LowerOf(c) == IF c \in UpperSet THEN ToLower[c] ELSE c

\* unicodedata.category(ch).startswith("L")
IsLetter(c) == c \in LowerSet \cup UpperSet \cup UncasedLetters
\* the regex class \d and str.isdigit(): every decimal digit, of any script
IsDigit(c) == c \in AsciiDigits \cup UnicodeDigits
\* the regex class \s and the characters str.strip() removes
IsSpace(c) == c \in SpaceChars

\* ------------------------------------------------------------ text helpers

RECURSIVE SpanIn(_, _)
\* length of the longest prefix of s made of characters of S
SpanIn(s, S) ==
    IF s # <<>> /\ Head(s) \in S THEN 1 + SpanIn(Tail(s), S) ELSE 0

RECURSIVE SpanNotIn(_, _)
SpanNotIn(s, S) ==
    IF s # <<>> /\ Head(s) \notin S THEN 1 + SpanNotIn(Tail(s), S) ELSE 0

Drop(s, n) == SubSeq(s, n + 1, Len(s))
Take(s, n) == SubSeq(s, 1, n)

LStrip(s, S) == Drop(s, SpanIn(s, S))

RECURSIVE RStrip(_, _)
RStrip(s, S) ==
    IF s # <<>> /\ s[Len(s)] \in S THEN RStrip(Take(s, Len(s) - 1), S) ELSE s

\* str.strip(chars)
StripChars(s, S) == RStrip(LStrip(s, S), S)
\* str.strip()
Strip(s) == StripChars(s, SpaceChars)

\* str.lower()
lower(s) == [k \in DOMAIN s |-> LowerOf(s[k])]

\* str.isupper(): some cased character, and no cased character in lowercase
isupper(w) ==
    /\ \E k \in DOMAIN w : w[k] \in UpperSet
    /\ \A k \in DOMAIN w : w[k] \notin LowerSet

\* str.isdigit()
isdigit(w) == w # <<>> /\ \A k \in DOMAIN w : IsDigit(w[k])

\* the `in` operator on strings
Contains(s, sub) ==
    \E k \in 0..(Len(s) - Len(sub)) : SubSeq(s, k + 1, k + Len(sub)) = sub

\* first index of a character of S in s, or 0
FirstIn(s, S) ==
    IF \E k \in DOMAIN s : s[k] \in S
    THEN CHOOSE k \in DOMAIN s : s[k] \in S /\ \A j \in 1..(k - 1) : s[j] \notin S
    ELSE 0

RECURSIVE SplitWords(_)
\* [w for w in re.split(r"\s+", t) if w]
SplitWords(s) ==
    LET t == LStrip(s, SpaceChars)
        n == SpanNotIn(t, SpaceChars)
    IN  IF t = <<>> THEN <<>> ELSE <<Take(t, n)>> \o SplitWords(Drop(t, n))

RECURSIVE SplitOn(_, _)
\* str.split(c): the pieces between the occurrences of c, empty ones kept
SplitOn(s, c) ==
    LET k == FirstIn(s, {c})
    IN  IF k = 0 THEN <<s>> ELSE <<Take(s, k - 1)>> \o SplitOn(Drop(s, k), c)

RECURSIVE ToStr(_)
\* str(n) of a natural number: its decimal digits
ToStr(n) ==
    LET d == <<"0", "1", "2", "3", "4", "5", "6", "7", "8", "9">>[(n % 10) + 1]
    IN  IF n < 10 THEN <<d>> ELSE ToStr(n \div 10) \o <<d>>

\* ------------------------------------------------- extractor.py: constants

SECTION_KEYWORDS ==
    << <<"v", "e", "g">>,
       <<"n", "o", "n", "-", "v", "e", "g">>,
       <<"v", "e", "g", "e", "t", "a", "r", "i", "a", "n">>,
       <<"n", "o", "n", " ", "v", "e", "g", "e", "t", "a", "r", "i", "a", "n">>,
       <<"s", "n", "a", "c", "k", "s">>,
       <<"b", "e", "v", "e", "r", "a", "g", "e", "s">>,
       <<"d", "r", "i", "n", "k", "s">>,
       <<"r", "i", "c", "e">>,
       <<"d", "e", "s", "s", "e", "r", "t">>,
       <<"s", "t", "a", "r", "t", "e", "r", "s">>,
       <<"m", "a", "i", "n", "s">>,
       <<"s", "i", "d", "e", "s">>,
       <<"s", "a", "l", "a", "d", "s">>,
       <<"s", "o", "u", "p", "s">>,
       <<"c", "u", "r", "r", "i", "e", "s">>,
       <<"t", "h", "a", "l", "i">>,
       <<"m", "e", "n", "u">>,
       <<"s", "p", "e", "c", "i", "a", "l", "s">>,
       <<"c", "o", "m", "b", "o">>,
       <<"s", "e", "t">>,
       <<"k", "i", "t", "c", "h", "e", "n">> >>

\* the currency alternatives of PRICE_RE, in the order the regex tries them;
\* re.IGNORECASE: compared against the lowercased text
CurrencyTokens ==
    << <<"RUPEE">>, <<"r", "s", ".">>, <<"r", "s">>, <<"i", "n", "r">>,
       <<"r", "s">>, <<"$">>, <<"EURO">>, <<"POUND">> >>

\* len(words) <= 4
MaxHeaderWords == 4
\* len(w) <= 3
ShortWordLen == 3
\* proportion_letters(name_part) < 0.4, as the fraction DensityNum / DensityDen
DensityNum == 4
DensityDen == 10

\* the characters of name_part.strip(". ,:-")
TrimChars == {".", " ", ",", ":", "-"}
\* the class [\-•\*\d\)\.] of the leading-bullet pattern
BulletChars == {"-", "BULLET", "*", ")", "."} \cup AsciiDigits \cup UnicodeDigits
\* the class [-–—:] of the separator pattern
DashChars == {"-", "ENDASH", "EMDASH", ":"}

\* --------------------------------------------- extractor.py: pure functions

RECURSIVE CollapseSpaces(_)
\* re.sub(r"\s+", " ", s)
CollapseSpaces(s) ==
    IF s = <<>> THEN <<>>
    ELSE IF IsSpace(Head(s))
         THEN <<" ">> \o CollapseSpaces(LStrip(Tail(s), SpaceChars))
         ELSE <<Head(s)>> \o CollapseSpaces(Tail(s))

normalize_whitespace(s) == Strip(CollapseSpaces(s))

\* the word test of is_header_like
HeaderWord(w) == isupper(w) \/ isdigit(w) \/ Len(w) <= ShortWordLen

\* is_header_like without the keyword loop
is_header_like_no_keywords(s) ==
    LET words == SplitWords(Strip(s))
    IN  \/ Strip(s) = <<>>
        \/ /\ Len(words) <= MaxHeaderWords
           /\ \A k \in DOMAIN words : HeaderWord(words[k])

is_header_like(s) ==
    LET t == Strip(s)
        words == SplitWords(t)
        low == lower(t)
    IN  \/ t = <<>>
        \/ /\ Len(words) <= MaxHeaderWords
           /\ \A k \in DOMAIN words : HeaderWord(words[k])
        \/ \E k \in DOMAIN SECTION_KEYWORDS : Contains(low, SECTION_KEYWORDS[k])

\* index after the run of whitespace that starts after index k of s
AfterSpaces(s, k) == k + SpanIn(Drop(s, k), SpaceChars)

\* index after the run [0-9]* that starts after index k of s
AfterDigits(s, k) == k + SpanIn(Drop(s, k), AsciiDigits)

\* index after the optional (?:[\.,][0-9]{1,2}) that starts after index k
AfterFraction(s, k) ==
    IF k + 2 <= Len(s) /\ s[k + 1] \in {".", ","} /\ s[k + 2] \in AsciiDigits
    THEN IF k + 3 <= Len(s) /\ s[k + 3] \in AsciiDigits THEN k + 3 ELSE k + 2
    ELSE k

\* AfterSlashDash of a pattern that lacks the trailing (?:/-)
AfterSlashDashMissing(s, k) == k

\* index after the optional (?:/-) that starts after index k
AfterSlashDash(s, k) ==
    IF k + 2 <= Len(s) /\ s[k + 1] = "/" /\ s[k + 2] = "-" THEN k + 2 ELSE k

\* length of the match of  \s*[0-9]+(?:[\.,][0-9]{1,2})?\s*(?:/-)?  at the
\* start of s, after a currency marker of length c; 0 when it does not match
NumberMatchLen(s, c) ==
    LET a == AfterSpaces(s, c)
        b == AfterDigits(s, a)
    IN  IF b = a THEN 0
        ELSE AfterSlashDash(s, AfterSpaces(s, AfterFraction(s, b)))

\* length of the match of PRICE_RE at the start of s, 0 when none: the first
\* currency alternative after which the number matches, else no currency
PriceMatchLen(s) ==
    LET Cur(k) == CurrencyTokens[k]
        Fits(k) == /\ Len(Cur(k)) <= Len(s)
                   /\ lower(Take(s, Len(Cur(k)))) = Cur(k)
                   /\ NumberMatchLen(s, Len(Cur(k))) > 0
        hits == {k \in DOMAIN CurrencyTokens : Fits(k)}
    IN  IF hits # {}
        THEN NumberMatchLen(s, Len(Cur(CHOOSE k \in hits : \A j \in hits : k <= j)))
        ELSE NumberMatchLen(s, 0)

RECURSIVE PriceSub(_)
\* PRICE_RE.sub("", s): every match removed, scanning left to right
PriceSub(s) ==
    IF s = <<>> THEN <<>>
    ELSE LET n == PriceMatchLen(s)
         IN  IF n > 0 THEN PriceSub(Drop(s, n))
             ELSE <<Head(s)>> \o PriceSub(Tail(s))

strip_price(s) == Strip(PriceSub(s))

\* number of characters of category L
Letters(s) == Cardinality({k \in DOMAIN s : IsLetter(s[k])})

\* letters / len(s) as the fraction <<numerator, denominator>>; 0.0 for ""
proportion_letters(s) == IF s = <<>> THEN <<0, 1>> ELSE <<Letters(s), Len(s)>>

\* BelowDensity with the threshold 0.3
BelowDensityLoose(p) == 10 * p[1] < 3 * p[2]

\* p < DensityNum / DensityDen for a fraction p
BelowDensity(p) == DensityDen * p[1] < DensityNum * p[2]

\* round(min(1.0, max(0.0, p)), 2) in hundredths.  Python rounds the binary
\* double: a tie of the exact fraction is exact in binary only for the
\* denominators 2^k (then half-even), which is every tie of a text shorter
\* than 40 characters.
Score(p) ==
    LET q == (100 * p[1]) \div p[2]
        r == (100 * p[1]) % p[2]
    IN  IF 2 * r < p[2] THEN q
        ELSE IF 2 * r > p[2] THEN q + 1
        ELSE IF q % 2 = 0 THEN q ELSE q + 1

\* ------------------------------------------- extractor.py: extract_items

\* `not raw or not raw.strip()`
IsBlank(raw) == Strip(raw) = <<>>

\* re.sub(r"^[\-•\*\d\)\.]+\s*", "", s)
StripLeadingBullets(s) ==
    LET n == SpanIn(s, BulletChars)
    IN  IF n = 0 THEN s ELSE LStrip(Drop(s, n), SpaceChars)

\* re.sub(r"^\(|\)$", "", s)
StripEdgeParens(s) ==
    LET a == IF s # <<>> /\ Head(s) = "(" THEN Tail(s) ELSE s
    IN  IF a # <<>> /\ a[Len(a)] = ")" THEN Take(a, Len(a) - 1) ELSE a

RECURSIVE RemoveParens(_)
\* re.sub(r"\(.*?\)", "", s): each "(" with a ")" after it goes, with all
\* that lies up to the nearest such ")"
RemoveParens(s) ==
    IF s = <<>> THEN <<>>
    ELSE LET k == FirstIn(Tail(s), {")"})
         IN  IF Head(s) = "(" /\ k > 0 THEN RemoveParens(Drop(s, k + 1))
             ELSE <<Head(s)>> \o RemoveParens(Tail(s))

\* a match of  \s{2,}|\s[-–—:]\s|\s\|\s|\t  starts at index k of s
SeparatorAt(s, k) ==
    \/ s[k] = "TAB"
    \/ /\ IsSpace(s[k])
       /\ k + 1 <= Len(s)
       /\ \/ IsSpace(s[k + 1])
          \/ /\ k + 2 <= Len(s)
             /\ s[k + 1] \in DashChars \cup {"|"}
             /\ IsSpace(s[k + 2])

\* re.split(...)[0]: the text before the first separator
FirstPart(s) ==
    LET hits == {k \in DOMAIN s : SeparatorAt(s, k)}
    IN  IF hits = {} THEN s
        ELSE Take(s, (CHOOSE k \in hits : \A j \in hits : k <= j) - 1)

\* s after strip and normalize_whitespace (lines 60-62)
Normalized(raw) == normalize_whitespace(Strip(raw))

\* name_part of a line that is neither blank nor a header (lines 66-76)
NamePart(raw) ==
    LET s1 == StripLeadingBullets(Normalized(raw))
        s2 == Strip(RemoveParens(StripEdgeParens(s1)))
        n1 == strip_price(FirstPart(s2))
    IN  Strip(StripChars(n1, TrimChars))

\* parts2 (lines 84-87)
Parts2(name_part) ==
    IF \E k \in DOMAIN name_part : name_part[k] = ","
    THEN LET ps == SplitOn(name_part, ",")
         IN  [k \in DOMAIN ps |-> StripChars(normalize_whitespace(ps[k]), TrimChars)]
    ELSE <<name_part>>

\* Candidate with the cleaned name kept as `original`
CandidateOriginalIsName(i, p, raw) ==
    [id |-> ToStr(i), name |-> p, original |-> p,
     score |-> Score(proportion_letters(p))]

\* Candidate with the score of the whole line
CandidateLineScore(i, p, raw) ==
    [id |-> ToStr(i), name |-> p, original |-> raw,
     score |-> Score(proportion_letters(raw))]

\* the candidate appended at line 98
Candidate(i, p, raw) ==
    [id |-> ToStr(i), name |-> p, original |-> raw,
     score |-> Score(proportion_letters(p))]

\* the index after an emission (line 99)
NextIdx(i) == i + 1

\* Key that keeps the case
KeyCaseSensitive(p) == p

\* the dedupe key (line 92)
Key(p) == lower(p)

RECURSIVE EmitPartsCountingSkips(_, _, _)
\* EmitParts with `idx += 1` also for a skipped duplicate
EmitPartsCountingSkips(st, parts, raw) ==
    IF parts = <<>> THEN st
    ELSE LET p == Strip(Head(parts))
         IN  IF p = <<>> THEN EmitPartsCountingSkips(st, Tail(parts), raw)
             ELSE IF lower(p) \in st.seen
             THEN EmitPartsCountingSkips([st EXCEPT !.idx = @ + 1], Tail(parts), raw)
             ELSE EmitPartsCountingSkips(
                      [candidates |-> Append(st.candidates,
                                             [id |-> ToStr(st.idx), name |-> p,
                                              original |-> raw,
                                              score |-> Score(proportion_letters(p))]),
                       seen |-> st.seen \cup {lower(p)},
                       idx |-> st.idx + 1],
                      Tail(parts), raw)

\* the candidates cs with the one of key k renamed to p of the line raw
Renamed(cs, k, p, raw) ==
    [j \in DOMAIN cs |->
        IF lower(cs[j].name) = k THEN [cs[j] EXCEPT !.name = p, !.original = raw]
        ELSE cs[j]]

RECURSIVE EmitPartsLastWins(_, _, _)
\* EmitParts where a duplicate replaces the name and the original of the
\* candidate emitted before
EmitPartsLastWins(st, parts, raw) ==
    IF parts = <<>> THEN st
    ELSE LET p == Strip(Head(parts))
         IN  IF p = <<>> THEN EmitPartsLastWins(st, Tail(parts), raw)
             ELSE IF lower(p) \in st.seen
             THEN EmitPartsLastWins(
                      [st EXCEPT !.candidates = Renamed(st.candidates, lower(p), p, raw)],
                      Tail(parts), raw)
             ELSE EmitPartsLastWins(
                      [candidates |-> Append(st.candidates,
                                             [id |-> ToStr(st.idx), name |-> p,
                                              original |-> raw,
                                              score |-> Score(proportion_letters(p))]),
                       seen |-> st.seen \cup {lower(p)},
                       idx |-> st.idx + 1],
                      Tail(parts), raw)

RECURSIVE EmitParts(_, _, _)
\* the loop `for p in parts2` (lines 88-99) from the state st
EmitParts(st, parts, raw) ==
    IF parts = <<>> THEN st
    ELSE LET p == Strip(Head(parts))
         IN  IF p = <<>> \/ Key(p) \in st.seen
             THEN EmitParts(st, Tail(parts), raw)
             ELSE EmitParts([candidates |-> Append(st.candidates, Candidate(st.idx, p, raw)),
                             seen |-> st.seen \cup {Key(p)},
                             idx |-> NextIdx(st.idx)],
                            Tail(parts), raw)

\* what the loop body does with one line
Outcome(raw) ==
    IF IsBlank(raw) THEN "blank"
    ELSE IF is_header_like(Normalized(raw)) THEN "header"
    ELSE IF NamePart(raw) = <<>> THEN "empty"
    ELSE IF BelowDensity(proportion_letters(NamePart(raw))) THEN "noise"
    ELSE "emit"

\* one iteration of `for raw in lines` (lines 57-99) from the state st
LoopBody(st, raw) ==
    IF Outcome(raw) = "emit" THEN EmitParts(st, Parts2(NamePart(raw)), raw) ELSE st

\* candidates = [], seen = set(), idx = 0 (lines 54-56)
Fresh == [candidates |-> <<>>, seen |-> {}, idx |-> 0]

RECURSIVE RunLoop(_, _)
RunLoop(st, ls) == IF ls = <<>> THEN st ELSE RunLoop(LoopBody(st, Head(ls)), Tail(ls))

\* extract_items as a function of its argument
extract_items(ls) == RunLoop(Fresh, ls).candidates

\* ------------------------------------------------- parser.py: parse_lines

\* the classes [\$£€] and (?:USD|EUR|GBP) of CURRENCY_RE
CurrencySigns == {"$", "POUND", "EURO"}
CurrencyCodes == {<<"U", "S", "D">>, <<"E", "U", "R">>, <<"G", "B", "P">>}
\* the class \d of CURRENCY_RE: the decimal digits of every script
AnyDigits == AsciiDigits \cup UnicodeDigits

\* index after the run \d* that starts after index k of s
AfterAnyDigits(s, k) == k + SpanIn(Drop(s, k), AnyDigits)

\* length of the match of  [\$£€]\s*\d+  at the start of s, 0 when none
SignMatchLen(s) ==
    LET a == AfterSpaces(s, 1)
    IN  IF s # <<>> /\ Head(s) \in CurrencySigns /\ AfterAnyDigits(s, a) > a
        THEN AfterAnyDigits(s, a) ELSE 0

\* length of the match of  \d+\s*(?:USD|EUR|GBP)  at the start of s, 0 when none
CodeMatchLen(s) ==
    LET a == AfterSpaces(s, AfterAnyDigits(s, 0))
    IN  IF /\ AfterAnyDigits(s, 0) > 0
           /\ a + 3 <= Len(s)
           /\ SubSeq(s, a + 1, a + 3) \in CurrencyCodes
        THEN a + 3 ELSE 0

\* length of the match of CURRENCY_RE at the start of s, 0 when none
CurrencyMatchLen(s) == IF SignMatchLen(s) > 0 THEN SignMatchLen(s) ELSE CodeMatchLen(s)

\* CURRENCY_RE.search(line)
CurrencySearch(s) == \E k \in 0..(Len(s) - 1) : CurrencyMatchLen(Drop(s, k)) > 0

RECURSIVE CurrencySub(_)
\* CURRENCY_RE.sub("", s)
CurrencySub(s) ==
    IF s = <<>> THEN <<>>
    ELSE IF CurrencyMatchLen(s) > 0 THEN CurrencySub(Drop(s, CurrencyMatchLen(s)))
    ELSE <<Head(s)>> \o CurrencySub(Tail(s))

\* strip_price of parser.py
parser_strip_price(s) == Strip(CurrencySub(s))

\* `line` after lines 17-23: the cleaned text of a line with a price in it
ParseText(line) == IF CurrencySearch(line) THEN parser_strip_price(line) ELSE line

\* the least length a line is kept at (line 15)
MinLineLen == 2

\* what the loop body of parse_lines does with one line, given the dedupe set
ParseOutcome(line, sn) ==
    IF Len(line) < MinLineLen THEN "short"
    ELSE IF ParseText(line) = <<>> THEN "price"
    ELSE IF lower(ParseText(line)) \in sn THEN "duplicate"
    ELSE "append"

\* ParseId that counts the items emitted so far
ParseIdEmitted(i, n) == ToStr(n)

\* the id of the item made from the line of index i when n items are there
\* already (line 31): str(i), the index of enumerate(lines)
ParseId(i, n) == ToStr(i)

\* one iteration of `for i, line in enumerate(lines)` from the state st
ParseBody(st, i, line) ==
    IF ParseOutcome(line, st.seen) = "append"
    THEN [items |-> Append(st.items, [id |-> ParseId(i, Len(st.items)),
                                      text |-> ParseText(line)]),
          seen |-> st.seen \cup {lower(ParseText(line))}]
    ELSE st

RECURSIVE ParseLoop(_, _, _)
ParseLoop(st, i, ls) ==
    IF i >= Len(ls) THEN st ELSE ParseLoop(ParseBody(st, i, ls[i + 1]), i + 1, ls)

\* items = [], seen = set() (lines 11-12)
ParseFresh == [items |-> <<>>, seen |-> {}]

\* parse_lines as a function of its argument
parse_lines(ls) == ParseLoop(ParseFresh, 0, ls).items

\* ------------------------------------------------------------------ inputs

LineBiryani == <<"2", ")", " ", "C", "h", "i", "c", "k", "e", "n", " ", "B", "i", "r", "y", "a", "n", "i", " ", "-", " ", "s", "p", "i", "c", "y", " ", "r", "i", "c", "e", " ", "d", "i", "s", "h">>
LinePaneer == <<"P", "a", "n", "e", "e", "r", " ", "T", "i", "k", "k", "a", " ", " ", " ", " ", "RUPEE", "1", "8", "0", "/", "-">>
LineTea == <<"T", "e", "a", ",", " ", "C", "o", "f", "f", "e", "e", ",", " ", "L", "a", "s", "s", "i">>
LineDigits == <<"1", "2", "3", "4", "5", "6">>
LineVegSnacks == <<"V", "E", "G", " ", "S", "N", "A", "C", "K", "S">>
LineBlank == <<" ", " ">>
LineDupes == <<"l", "a", "s", "s", "i", ",", " ", "C", "O", "F", "F", "E", "E", ",", " ", "F", "a", "l", "o", "o", "d", "a", ",", " ", "c", "o", "f", "f", "e", "e">>
LineDevaPrice == <<"S", "a", "m", "o", "s", "a", ",", " ", "DEVA1", "DEVA2">>
LineParens == <<"P", "a", "n", "e", "e", "r", " ", "T", "i", "k", "k", "a", " ", "(", "s", "p", "i", "c", "y", ")", " ", " ", "R", "s", ".", " ", "2", "0", "0">>
LineBullet == <<"-", " ", "M", "a", "s", "a", "l", "a", " ", "D", "o", "s", "a", " ", ":", " ", "c", "r", "i", "s", "p", "y">>
LineStars == <<"*", "*", "*", "*", "*", " ", "D", "a", "l", " ", "*", "*", "*", "*", "*">>
LineJuice == <<"J", "u", "i", "c", "e", " ", "-", "$", "5", "/", "-", " ", "S", "h", "a", "k", "e">>
LineWide == <<"M", "a", "s", "a", "l", "a", " ", "D", "o", "s", "a", " ", " ", " ", " ", "c", "r", "i", "s", "p", "y">>
LineNote == <<"P", "a", "n", "e", "e", "r", " ", "T", "i", "k", "k", "a", " ", "(", "s", "p", "i", "c", "y", ")">>

\* OCR lines of a menu, the examples of the specification among them
MenuLines ==
    {LineBiryani, LinePaneer, LineTea, LineDigits, LineVegSnacks, LineBlank,
     LineDupes, LineDevaPrice, LineParens, LineBullet, LineStars, LineJuice,
     LineWide, LineNote}

\* the characters the generated lines are made of
GenAlphabet == {"a", "B", "5", " ", ",", "-", "(", ")"}

RECURSIVE TextsUpTo(_)
\* every text over GenAlphabet of at most n characters
TextsUpTo(n) ==
    IF n = 0 THEN {<<>>}
    ELSE LET P == TextsUpTo(n - 1)
         IN  P \cup {Append(s, c) : s \in P, c \in GenAlphabet}

RECURSIVE ListsUpTo(_)
\* every list of at most n lines of MenuLines
ListsUpTo(n) ==
    IF n = 0 THEN {<<>>}
    ELSE LET P == ListsUpTo(n - 1)
         IN  P \cup {Append(l, x) : l \in P, x \in MenuLines}

NamePaneerTikka == <<"P", "a", "n", "e", "e", "r", " ", "T", "i", "k", "k", "a">>
NameDal == <<"D", "a", "l">>

\* names followed by a price
PricedNames == {NamePaneerTikka, NameDal}
PriceGaps == {<<" ">>, <<" ", " ", " ", " ">>, <<"TAB">>}
PriceMarkers ==
    {<<>>, <<"RUPEE">>, <<"R", "s", ".">>, <<"R", "s">>, <<"r", "s", " ">>,
     <<"I", "N", "R", " ">>, <<"$">>, <<"EURO">>, <<"POUND">>}
PriceNumbers ==
    {<<"1", "8", "0">>, <<"9", "9", ".", "5">>, <<"1", "2", ",", "5", "0">>,
     <<"1", ",", "0", "0", "0">>}
PriceSuffixes == {<<>>, <<"/", "-">>, <<" ", "/", "-">>}

\* an optional currency marker, a number and an optional "/-"
PriceTokens ==
    {m \o n \o x : m \in PriceMarkers, n \in PriceNumbers, x \in PriceSuffixes}

\* a name, a run of spaces, a price token
PriceLines == {n \o g \o t : n \in PricedNames, g \in PriceGaps, t \in PriceTokens}

\* the argument lists of the calls explored
Inputs ==
    ListsUpTo(MaxLines)
        \cup {<<s>> : s \in TextsUpTo(MaxLen)}
        \cup {<<s>> : s \in PriceLines}

TextPizza == <<"P", "i", "z", "z", "a">>
TextPizzaLower == <<"p", "i", "z", "z", "a">>
TextShort == <<"x">>
TextPriceOnly == <<"$", "1", "2">>
TextTeaPriced == <<"T", "e", "a", " ", "$", "5">>
TextTea == <<"T", "e", "a">>
TextCodePrice == <<"1", "2", " ", "U", "S", "D">>

\* OCR lines given to parse_lines
ParserLines ==
    {TextPizza, TextPizzaLower, TextShort, TextPriceOnly, TextTeaPriced, TextTea,
     TextCodePrice}

RECURSIVE ParserListsUpTo(_)
\* every list of at most n lines of ParserLines
ParserListsUpTo(n) ==
    IF n = 0 THEN {<<>>}
    ELSE LET P == ParserListsUpTo(n - 1)
         IN  P \cup {Append(l, x) : l \in P, x \in ParserLines}

\* the argument lists of the calls of parse_lines explored
ParserInputs == ParserListsUpTo(MaxParseLines)

\* ----------------------------------------------------------- state machine

VARIABLES
    lines,       \* the argument of the call
    pos,         \* number of lines the loop has consumed
    candidates,  \* the list being built
    seen,        \* the dedupe set
    idx,         \* the id counter
    pc           \* "loop" while iterating, "done" once returned

\* a call of parse_lines
VARIABLES
    plines,      \* the argument of the call
    ppos,        \* number of lines the loop has consumed: the index i
    items,       \* the list being built
    pseen,       \* the dedupe set
    ppc          \* "idle" when no call is made, "loop", "done"

\* concurrent calls of extract_items
VARIABLES
    calls        \* caller -> the argument, the position and the locals of its call

\* the job store of main.py and the background tasks of the server
VARIABLES
    JOBS,        \* job id -> [status, items, results]
    tasks,       \* per request, the queue of the tasks added and not yet finished
    uuids,       \* number of calls of uuid.uuid4() made
    regens       \* number of calls of regenerate made

\* the variables of the call of extract_items
xvars == <<lines, pos, candidates, seen, idx, pc>>
\* the variables of the call of parse_lines
pvars == <<plines, ppos, items, pseen, ppc>>
\* the variables of the concurrent calls
cvars == <<calls>>
\* the variables of the job store
jvars == <<JOBS, tasks, uuids, regens>>
\* the variables a call of extract_items leaves alone
others == <<pvars, cvars, jvars>>
\* the variables a call of parse_lines leaves alone
pothers == <<xvars, cvars, jvars>>
\* the variables the concurrent calls leave alone
cothers == <<xvars, pvars, jvars>>
\* the variables the job store operations leave alone
jothers == <<xvars, pvars, cvars>>

vars == <<xvars, pvars, cvars, jvars>>

\* the callers of the concurrent calls
Callers == {"c1", "c2"}

\* the call of a caller that makes none
IdleCall == [lines |-> <<>>, pos |-> 0, candidates |-> <<>>, seen |-> {}, idx |-> 0,
             pc |-> "idle"]

\* no concurrent call is made
NoCalls == calls = [c \in Callers |-> IdleCall]

\* JOBS = {} (main.py line 27), no task added, no request made
NoJobs ==
    /\ JOBS = <<>>
    /\ tasks = <<>>
    /\ uuids = 0
    /\ regens = 0

\* no call of extract_items is made
NoExtract ==
    /\ lines = <<>>
    /\ pos = 0
    /\ candidates = <<>>
    /\ seen = {}
    /\ idx = 0
    /\ pc = "idle"

\* no call of parse_lines is made
NoParse ==
    /\ plines = <<>>
    /\ ppos = 0
    /\ items = <<>>
    /\ pseen = {}
    /\ ppc = "idle"

Init ==
    /\ lines \in Inputs
    /\ pos = 0
    /\ candidates = Fresh.candidates
    /\ seen = Fresh.seen
    /\ idx = Fresh.idx
    /\ pc = "loop"
    /\ NoParse
    /\ NoCalls
    /\ NoJobs

\* the loop is about to take lines[pos + 1] and its body ends in outcome o
Taking(o) == pc = "loop" /\ pos < Len(lines) /\ Outcome(lines[pos + 1]) = o

\* Advance of a loop that never moves on
AdvanceStuck(p) == p

\* the next line of the iteration
Advance(p) == p + 1

\* lines 58-59: an empty or whitespace-only line
SkipBlank ==
    /\ Taking("blank")
    /\ pos' = Advance(pos)
    /\ UNCHANGED <<lines, candidates, seen, idx, pc>>
    /\ UNCHANGED others

\* lines 64-65: a header
DropHeader ==
    /\ Taking("header")
    /\ pos' = Advance(pos)
    /\ UNCHANGED <<lines, candidates, seen, idx, pc>>
    /\ UNCHANGED others

\* lines 77-78: nothing is left of the name
DropEmptyName ==
    /\ Taking("empty")
    /\ pos' = Advance(pos)
    /\ UNCHANGED <<lines, candidates, seen, idx, pc>>
    /\ UNCHANGED others

\* lines 80-82: too few letters
DropNoise ==
    /\ Taking("noise")
    /\ pos' = Advance(pos)
    /\ UNCHANGED <<lines, candidates, seen, idx, pc>>
    /\ UNCHANGED others

\* lines 84-99: the sub-items of the line are emitted
EmitLine ==
    /\ Taking("emit")
    /\ LET raw == lines[pos + 1]
           st == EmitParts([candidates |-> candidates, seen |-> seen, idx |-> idx],
                           Parts2(NamePart(raw)), raw)
       IN  /\ candidates' = st.candidates
           /\ seen' = st.seen
           /\ idx' = st.idx
    /\ pos' = Advance(pos)
    /\ UNCHANGED <<lines, pc>>
    /\ UNCHANGED others

\* line 100: return candidates
Return ==
    /\ pc = "loop"
    /\ pos >= Len(lines)
    /\ pc' = "done"
    /\ UNCHANGED <<lines, pos, candidates, seen, idx>>
    /\ UNCHANGED others

Next ==
    \/ SkipBlank
    \/ DropHeader
    \/ DropEmptyName
    \/ DropNoise
    \/ EmitLine
    \/ Return

Spec == Init /\ [][Next]_vars

\* ------------------------------------------- state machine of parse_lines

ParseInit ==
    /\ NoExtract
    /\ NoCalls
    /\ NoJobs
    /\ plines \in ParserInputs
    /\ ppos = 0
    /\ items = ParseFresh.items
    /\ pseen = ParseFresh.seen
    /\ ppc = "loop"

\* the loop is about to take plines[ppos + 1] and its body ends in outcome o
ParseTaking(o) ==
    ppc = "loop" /\ ppos < Len(plines) /\ ParseOutcome(plines[ppos + 1], pseen) = o

\* parser.py lines 15-16: a line of fewer than 2 characters
ParseSkipShort ==
    /\ ParseTaking("short")
    /\ ppos' = ppos + 1
    /\ UNCHANGED <<plines, items, pseen, ppc>>
    /\ UNCHANGED pothers

\* parser.py lines 17-23: nothing but a price
ParseDropPrice ==
    /\ ParseTaking("price")
    /\ ppos' = ppos + 1
    /\ UNCHANGED <<plines, items, pseen, ppc>>
    /\ UNCHANGED pothers

\* parser.py lines 27-29: a text seen before
ParseSkipDuplicate ==
    /\ ParseTaking("duplicate")
    /\ ppos' = ppos + 1
    /\ UNCHANGED <<plines, items, pseen, ppc>>
    /\ UNCHANGED pothers

\* parser.py lines 30-31: the item is appended
ParseAppend ==
    /\ ParseTaking("append")
    /\ LET st == ParseBody([items |-> items, seen |-> pseen], ppos, plines[ppos + 1])
       IN  items' = st.items /\ pseen' = st.seen
    /\ ppos' = ppos + 1
    /\ UNCHANGED <<plines, ppc>>
    /\ UNCHANGED pothers

\* parser.py line 32: return items
ParseReturn ==
    /\ ppc = "loop"
    /\ ppos >= Len(plines)
    /\ ppc' = "done"
    /\ UNCHANGED <<plines, ppos, items, pseen>>
    /\ UNCHANGED pothers

ParseNext ==
    \/ ParseSkipShort
    \/ ParseDropPrice
    \/ ParseSkipDuplicate
    \/ ParseAppend
    \/ ParseReturn

SpecParse == ParseInit /\ [][ParseNext]_vars

\* ------------------------------- concurrent calls of extract_items

\* the argument lists of the concurrent calls
ConcurrentInputs ==
    {<<>>, <<LineTea>>, <<LineDupes>>, <<LineTea, LineDupes>>, <<LineDupes, LineTea>>,
     <<LineVegSnacks, LineDupes>>, <<LineBlank, LineTea, LineDigits>>}

\* the locals of a call (lines 54-56) when `seen` is one set for all calls
LocalsSharedSeen(cs, c) ==
    [candidates |-> cs[c].candidates,
     seen |-> UNION {cs[d].seen : d \in DOMAIN cs},
     idx |-> cs[c].idx]

\* the locals the call of caller c works on: candidates, seen and idx are
\* made by the call itself (lines 54-56), so they are those of its own frame
Locals(cs, c) ==
    [candidates |-> cs[c].candidates, seen |-> cs[c].seen, idx |-> cs[c].idx]

\* each caller calls extract_items (main.py line 66) with its own argument
ConcInit ==
    /\ NoExtract
    /\ NoParse
    /\ NoJobs
    /\ \E f \in [Callers -> ConcurrentInputs] :
           calls = [c \in Callers |->
                       [lines |-> f[c], pos |-> 0, candidates |-> Fresh.candidates,
                        seen |-> Fresh.seen, idx |-> Fresh.idx, pc |-> "loop"]]

\* lines 57-99: the call of caller c runs one iteration of its loop
CallIterate(c) ==
    /\ calls[c].pc = "loop"
    /\ calls[c].pos < Len(calls[c].lines)
    /\ LET st == LoopBody(Locals(calls, c), calls[c].lines[calls[c].pos + 1])
       IN  calls' = [calls EXCEPT ![c].candidates = st.candidates,
                                  ![c].seen = st.seen,
                                  ![c].idx = st.idx,
                                  ![c].pos = @ + 1]
    /\ UNCHANGED cothers

\* line 100: the call of caller c returns
CallReturn(c) ==
    /\ calls[c].pc = "loop"
    /\ calls[c].pos >= Len(calls[c].lines)
    /\ calls' = [calls EXCEPT ![c].pc = "done"]
    /\ UNCHANGED cothers

ConcNext == \E c \in Callers : CallIterate(c) \/ CallReturn(c)

SpecConc == ConcInit /\ [][ConcNext]_vars

\* ------------------------------------ main.py, generator.py: the job store

\* str(uuid.uuid4()): the n-th call gives a value no other call gives
Uuid(n) == <<"u">> \o ToStr(n)

\* the dict d after d[k] = v
Put(d, k, v) == [x \in DOMAIN d \cup {k} |-> IF x = k THEN v ELSE d[x]]

\* items of the payload of a confirm request; an item without "id" (or with
\* an empty one) has id <<>>
ItemA == [id |-> <<"a">>, text |-> "Tea"]
ItemB == [id |-> <<"b">>, text |-> "Dal"]
ItemNoId == [id |-> <<>>, text |-> "Lassi"]
PayloadItems == {ItemA, ItemB, ItemNoId}

RECURSIVE PayloadsUpTo(_)
\* every list of at most n payload items
PayloadsUpTo(n) ==
    IF n = 0 THEN {<<>>}
    ELSE LET P == PayloadsUpTo(n - 1)
         IN  P \cup {Append(l, x) : l \in P, x \in PayloadItems}

\* the lists payload.get("items", []) of the confirm requests explored
Payloads == PayloadsUpTo(MaxItems)

\* the file name of the image of an item: _image_hash_for(item_text + prompt)
ImageFile(text) == <<"sha256", text>>

RECURSIVE AddItems(_, _, _)
\* the loop `for item in items` of confirm_items (main.py lines 51-55) from
\* st = [items, queue, uuids]: each item is appended as pending and a task
\* is added for it
AddItems(st, job_id, payload) ==
    IF payload = <<>> THEN st
    ELSE LET item == Head(payload)
             fresh == item.id = <<>>
             item_id == IF fresh THEN Uuid(st.uuids + 1) ELSE item.id
         IN  AddItems([items |-> Append(st.items, [id |-> item_id, text |-> item.text,
                                                   status |-> "pending"]),
                       queue |-> Append(st.queue, [job |-> job_id, item |-> item_id,
                                                   text |-> item.text]),
                       uuids |-> IF fresh THEN st.uuids + 1 ELSE st.uuids],
                      job_id, Tail(payload))

\* the job after the update of enqueue_generation (generator.py lines
\* 155-161) for the task t
Finished(job, t) ==
    LET its == [k \in DOMAIN job.items |->
                   IF job.items[k].id = t.item
                   THEN [job.items[k] EXCEPT !.status = "done"]
                   ELSE job.items[k]]
    IN  [status |-> IF \A k \in DOMAIN its : its[k].status = "done"
                    THEN "completed" ELSE job.status,
         items |-> its,
         results |-> Put(job.results, t.item, ImageFile(t.text))]

\* the task queues without the first task of queue r
Popped(qs, r) ==
    IF Len(qs[r]) = 1 THEN SubSeq(qs, 1, r - 1) \o SubSeq(qs, r + 1, Len(qs))
    ELSE [qs EXCEPT ![r] = Tail(@)]

\* the index of the first item of the job with the id, 0 when there is none
\* (main.py line 150)
FirstItem(job, item_id) ==
    LET hits == {k \in DOMAIN job.items : job.items[k].id = item_id}
    IN  IF hits = {} THEN 0 ELSE CHOOSE k \in hits : \A j \in hits : k <= j

\* the ids a regenerate request may name: those of clients, those in the store
RequestItemIds ==
    {ItemA.id, ItemB.id}
    \cup UNION {{JOBS[j].items[k].id : k \in DOMAIN JOBS[j].items} : j \in DOMAIN JOBS}

\* the job ids a regenerate request may name: those in the store, and one
\* that was never given out
RequestJobIds == DOMAIN JOBS \cup {Uuid(0)}

\* the server starts with JOBS = {}
JobsInit ==
    /\ NoExtract
    /\ NoParse
    /\ NoCalls
    /\ NoJobs

\* confirm_items (main.py lines 43-57); the handler never awaits, and the
\* tasks it adds start only after it has returned
ConfirmItems ==
    /\ Cardinality(DOMAIN JOBS) < MaxJobs
    /\ \E payload \in Payloads :
           LET job_id == Uuid(uuids + 1)
               st == AddItems([items |-> <<>>, queue |-> <<>>, uuids |-> uuids + 1],
                              job_id, payload)
           IN  /\ JOBS' = Put(JOBS, job_id, [status |-> "running", items |-> st.items,
                                             results |-> <<>>])
               /\ tasks' = IF st.queue = <<>> THEN tasks ELSE Append(tasks, st.queue)
               /\ uuids' = st.uuids
    /\ UNCHANGED regens
    /\ UNCHANGED jothers

\* enqueue_generation (generator.py lines 143-163) runs to its end: the
\* tasks of one request run one after the other in the order added, those
\* of different requests interleave; lines 152-161 never await
TaskFinish ==
    /\ \E r \in DOMAIN tasks :
           LET t == Head(tasks[r])
           IN  /\ JOBS' = IF t.job \in DOMAIN JOBS
                          THEN Put(JOBS, t.job, Finished(JOBS[t.job], t))
                          ELSE JOBS
               /\ tasks' = Popped(tasks, r)
    /\ UNCHANGED <<uuids, regens>>
    /\ UNCHANGED jothers

\* regenerate (main.py lines 144-156) for a job and an item that exist
Regenerate ==
    /\ regens < MaxRegens
    /\ \E job_id \in DOMAIN JOBS, item_id \in RequestItemIds :
           LET k == FirstItem(JOBS[job_id], item_id)
           IN  /\ k > 0
               /\ JOBS' = [JOBS EXCEPT ![job_id].items[k].status = "pending"]
               /\ tasks' = Append(tasks, <<[job |-> job_id, item |-> item_id,
                                            text |-> JOBS[job_id].items[k].text]>>)
    /\ regens' = regens + 1
    /\ UNCHANGED uuids
    /\ UNCHANGED jothers

\* regenerate answers 404: the job or the item is not there (main.py lines
\* 147-148 and 151-152)
RegenerateNotFound ==
    /\ regens < MaxRegens
    /\ \E job_id \in RequestJobIds, item_id \in RequestItemIds :
           IF job_id \in DOMAIN JOBS THEN FirstItem(JOBS[job_id], item_id) = 0 ELSE TRUE
    /\ regens' = regens + 1
    /\ UNCHANGED <<JOBS, tasks, uuids>>
    /\ UNCHANGED jothers

JobsNext ==
    \/ ConfirmItems
    \/ TaskFinish
    \/ Regenerate
    \/ RegenerateNotFound

SpecJobs == JobsInit /\ [][JobsNext]_vars

\* ------------------------------------------------------------------ claims

\* the names of the candidates, in order
Names == [k \in DOMAIN candidates |-> candidates[k].name]

\* C1: no two candidates of one call have names that are equal when
\* lowercased.
C1_DedupInvariant ==
    \A i, j \in DOMAIN candidates :
        i # j => lower(candidates[i].name) # lower(candidates[j].name)

\* a call that skipped "coffee" after "COFFEE" in one line
C1_Witness ==
    /\ pc = "done"
    /\ lines = <<LineDupes>>
    /\ Len(candidates) = 3

NameChickenBiryani ==
    <<"C", "h", "i", "c", "k", "e", "n", " ", "B", "i", "r", "y", "a", "n", "i">>

\* C2: the one-line input "2) Chicken Biryani - spicy rice dish" returns
\* exactly one candidate, named "Chicken Biryani".
C2_BiryaniName ==
    (pc = "done" /\ lines = <<LineBiryani>>) => Names = <<NameChickenBiryani>>

\* a and b are equal up to whitespace and punctuation at their ends
SameUpToTrimming(a, b) ==
    StripChars(normalize_whitespace(a), TrimChars)
        = StripChars(normalize_whitespace(b), TrimChars)

\* C3: every returned name, given back as a one-line input, returns exactly
\* one candidate, whose name is that name up to whitespace/punctuation
\* trimming.
C3_NamesStable ==
    \A k \in DOMAIN candidates :
        LET again == extract_items(<<candidates[k].name>>)
        IN  Len(again) = 1 /\ SameUpToTrimming(again[1].name, candidates[k].name)

\* every character of w is an uppercase letter
AllUppercase(w) == w # <<>> /\ \A k \in DOMAIN w : w[k] \in UpperSet
\* every character of w is a digit
AllDigits(w) == w # <<>> /\ \A k \in DOMAIN w : IsDigit(w[k])

\* a header in the words of the claim: after whitespace normalization at
\* most 4 words, each all-uppercase, all-digit or at most 3 characters long,
\* or the lowercase line contains a section keyword
ClaimedHeader(line) ==
    LET t == normalize_whitespace(line)
        words == SplitWords(t)
    IN  \/ /\ Len(words) <= 4
           /\ \A k \in DOMAIN words :
                  AllUppercase(words[k]) \/ AllDigits(words[k]) \/ Len(words[k]) <= 3
        \/ \E k \in DOMAIN SECTION_KEYWORDS : Contains(lower(t), SECTION_KEYWORDS[k])

IsNoHeader(line) == ~ClaimedHeader(line)

\* C4: a header line emits nothing and has no effect on the ids, the dedupe
\* set or the candidates of the other lines: the loop stands where it would
\* stand had the headers consumed so far never been in the input.
C4_HeaderNoEffect ==
    [candidates |-> candidates, seen |-> seen, idx |-> idx]
        = RunLoop(Fresh, SelectSeq(Take(lines, pos), IsNoHeader))

\* a header consumed first, an item line after it
C4_Witness ==
    /\ pc = "done"
    /\ lines = <<LineVegSnacks, LineTea>>
    /\ Len(candidates) = 3
    /\ candidates[1].id = <<"0">>

\* a run of spaces and a price token
PriceTails == {g \o t : g \in PriceGaps, t \in PriceTokens}

\* line is name followed by a run of spaces and a price token
IsPricedLine(name, line) ==
    /\ Len(line) > Len(name)
    /\ Take(line, Len(name)) = name
    /\ Drop(line, Len(name)) \in PriceTails

\* C5: "Paneer Tikka    RUPEE 180/-" returns exactly the name "Paneer Tikka";
\* a trailing price token (optional currency marker, number, optional "/-")
\* leaves no trace in the emitted name: what is emitted is the bare name.
C5_PriceStripped ==
    (pc = "done" /\ Len(lines) = 1) =>
        /\ lines[1] = LinePaneer => Names = <<NamePaneerTikka>>
        /\ \A n \in PricedNames :
               IsPricedLine(n, lines[1]) =>
                   /\ Len(candidates) <= 1
                   /\ \A k \in DOMAIN candidates : candidates[k].name = n

C5_Witness ==
    /\ pc = "done"
    /\ lines = <<LinePaneer>>
    /\ Names = <<NamePaneerTikka>>

RECURSIVE NewSubItems(_, _)
\* the non-empty sub-items of subs, left to right, whose lowercase form is
\* not in taken and not that of a sub-item kept before
NewSubItems(subs, taken) ==
    IF subs = <<>> THEN <<>>
    ELSE LET p == Head(subs)
         IN  IF p = <<>> \/ lower(p) \in taken
             THEN NewSubItems(Tail(subs), taken)
             ELSE <<p>> \o NewSubItems(Tail(subs), taken \cup {lower(p)})

\* the comma-separated sub-items of a cleaned name segment, each trimmed
CommaSubItems(seg) ==
    LET ps == SplitOn(seg, ",")
    IN  [k \in DOMAIN ps |-> StripChars(normalize_whitespace(ps[k]), TrimChars)]

\* what the claim expects a comma line raw to append after the candidates cs
ExpectedExpansion(cs, raw) ==
    LET emitted == {lower(cs[k].name) : k \in DOMAIN cs}
        new == NewSubItems(CommaSubItems(NamePart(raw)), emitted)
    IN  [k \in DOMAIN new |->
            [id |-> ToStr(Len(cs) + k - 1), name |-> new[k], original |-> raw,
             score |-> Score(proportion_letters(new[k]))]]

HasComma(s) == \E k \in DOMAIN s : s[k] = ","

\* C6: a non-header line whose cleaned name segment contains commas and has
\* letter density >= 0.4 appends one candidate per non-empty, not-yet-seen
\* sub-item, left to right, with consecutive ids, its own score and the
\* whole source line as `original`.
C6_CommaExpansion ==
    [][(Taking("emit") /\ HasComma(NamePart(lines[pos + 1])))
           => candidates' = candidates \o ExpectedExpansion(candidates, lines[pos + 1])]_vars

NameTea == <<"T", "e", "a">>
NameCoffee == <<"C", "o", "f", "f", "e", "e">>
NameLassi == <<"L", "a", "s", "s", "i">>

\* "Tea, Coffee, Lassi" has yielded "Tea", "Coffee", "Lassi"
C6_Witness ==
    /\ pc = "done"
    /\ lines = <<LineTea>>
    /\ Names = <<NameTea, NameCoffee, NameLassi>>
    /\ \A k \in 1..3 : candidates[k].original = LineTea /\ candidates[k].id = ToStr(k - 1)

\* C7: every candidate's name is non-empty and is not made up of digit
\* characters only.
C7_NameNotNumeric ==
    \A k \in DOMAIN candidates :
        candidates[k].name # <<>> /\ ~AllDigits(candidates[k].name)

\* C8: the ids are "0", "1", ..., "n-1" in emission order, and the counter
\* stands at the number of candidates emitted.
C8_SequentialIds ==
    /\ idx = Len(candidates)
    /\ \A k \in DOMAIN candidates : candidates[k].id = ToStr(k - 1)

\* a dropped header and a skipped duplicate have not advanced the counter
C8_Witness ==
    /\ pc = "done"
    /\ lines = <<LineVegSnacks, LineDupes>>
    /\ Len(candidates) = 3
    /\ candidates[3].id = <<"2">>

AllBlank(ls) == \A k \in DOMAIN ls : Strip(ls[k]) = <<>>

\* the ways the loop body can end
OutcomeKinds == {"blank", "header", "empty", "noise", "emit"}

\* C9: extract_items is total.  A call that has not returned can always take
\* a step: the loop body ends in one of its five ways for whatever line it is
\* given, each iteration consumes one line of the finite argument, and the
\* only other step is the return, so the call returns after len(lines)
\* iterations; an argument that is empty or holds only empty or
\* whitespace-only lines returns the empty list.
C9_Total ==
    /\ [](pc = "loop" =>
              /\ pos <= Len(lines)
              /\ Advance(pos) > pos
              /\ pos < Len(lines) => Outcome(lines[pos + 1]) \in OutcomeKinds)
    /\ [][(pos' = pos + 1 /\ pc' = pc) \/ (pos' = pos /\ pc = "loop" /\ pc' = "done")]_vars
    /\ [](pc = "done" =>
              /\ pos = Len(lines)
              /\ AllBlank(lines) => candidates = <<>>)

\* a call on whitespace-only lines has returned the empty list
C9_Witness ==
    /\ pc = "done"
    /\ lines = <<LineBlank, LineBlank>>
    /\ candidates = <<>>

\* C10: no candidate comes from a line whose cleaned name segment has a
\* letter fraction below 0.4, and none from a line of digits only.
C10_DensityFilter ==
    \A k \in DOMAIN candidates :
        LET seg == NamePart(candidates[k].original)
        IN  /\ 10 * Letters(seg) >= 4 * Len(seg)
            /\ ~AllDigits(candidates[k].original)

\* a line of decoration around a short name and a line of digits, both
\* consumed without a candidate
C10_Witness ==
    /\ pc = "done"
    /\ lines = <<LineStars, LineDigits>>
    /\ 10 * Letters(NamePart(LineStars)) < 4 * Len(NamePart(LineStars))
    /\ candidates = <<>>

\* C11 as stated: the ids of the items parse_lines returns are the
\* consecutive indices "0", "1", ... in emission order, also when lines are
\* dropped.
C11_ConsecutiveIds ==
    \A k \in DOMAIN items : items[k].id = ToStr(k - 1)

\* f maps each item to the 0-based index of an input line, in rising order
RisingSources(f) ==
    /\ \A k \in DOMAIN items : f[k] \in 0..(ppos - 1)
    /\ \A j, k \in DOMAIN items : j < k => f[j] < f[k]

\* C11 as amended: the id of an item is the decimal index, in the input
\* list, of the line it comes from; the ids rise strictly in emission order
\* and they are "0", "1", ... exactly as long as no line was dropped.
C11_IdsAreLineIndices ==
    /\ \E f \in [DOMAIN items -> 0..(Len(plines) - 1)] :
           /\ RisingSources(f)
           /\ \A k \in DOMAIN items :
                  /\ items[k].id = ToStr(f[k])
                  /\ items[k].text = ParseText(plines[f[k] + 1])
    /\ Len(items) = ppos => C11_ConsecutiveIds

\* "x" dropped as too short, "Pizza" kept with the id of its line
C11_Witness ==
    /\ ppc = "done"
    /\ plines = <<TextShort, TextPizza, TextTeaPriced>>
    /\ Len(items) = 2
    /\ items[1].id = <<"1">>
    /\ items[2].id = <<"2">>
    /\ items[2].text = TextTea

\* C12: concurrent calls of extract_items never interfere: under every
\* interleaving of the iterations of the calls, the candidates, the dedupe
\* set and the counter of each call are what the call alone makes of the
\* lines it has consumed, and the list it returns is extract_items of its
\* own argument.
C12_NoInterference ==
    \A c \in Callers :
        /\ Locals(calls, c) = RunLoop(Fresh, Take(calls[c].lines, calls[c].pos))
        /\ calls[c].pc = "done" => calls[c].candidates = extract_items(calls[c].lines)

\* c1 has returned Tea, Coffee, Lassi, Falooda while the call of c2, which
\* has "coffee" of its own in its dedupe set, is still in its loop
C12_Witness ==
    /\ calls["c1"].pc = "done"
    /\ calls["c1"].lines = <<LineTea, LineDupes>>
    /\ Len(calls["c1"].candidates) = 4
    /\ calls["c1"].candidates[2].name = NameCoffee
    /\ calls["c2"].pc = "loop"
    /\ calls["c2"].lines = <<LineDupes, LineTea>>
    /\ calls["c2"].pos = 1
    /\ calls["c2"].idx = 3

\* the text of a line before its first separator (two or more spaces, a
\* tab, " - ", " : ", " | "), the whole line when it has none
BeforeSeparator(raw) == FirstPart(Strip(raw))

\* the names that the text before the first separator of a line gives
NamesBeforeSeparator(raw) ==
    LET ps == Parts2(NamePart(BeforeSeparator(raw)))
    IN  {ps[k] : k \in DOMAIN ps}

\* C13 as stated: the name of every candidate that comes from a line with a
\* separator is derived from the text before the first separator alone.
C13_NameBeforeSeparator ==
    \A k \in 1..pos :
        BeforeSeparator(lines[k]) # Strip(lines[k]) =>
            \A j \in DOMAIN candidates :
                candidates[j].original = lines[k] =>
                    candidates[j].name \in NamesBeforeSeparator(lines[k])

RECURSIVE Balanced(_, _)
\* the parentheses of s are balanced, d of them being open before s
Balanced(s, d) ==
    IF s = <<>> THEN d = 0
    ELSE IF Head(s) = "(" THEN Balanced(Tail(s), d + 1)
    ELSE IF Head(s) = ")" THEN d > 0 /\ Balanced(Tail(s), d - 1)
    ELSE Balanced(Tail(s), d)

\* C14 as stated: no name that comes from a line whose parentheses are
\* balanced contains a parenthesis.
C14_NoParenthesis ==
    \A j \in DOMAIN candidates :
        Balanced(candidates[j].original, 0) =>
            \A k \in DOMAIN candidates[j].name :
                candidates[j].name[k] \notin {"(", ")"}

Named(x) == x.name # <<>>

\* the sub-items of a line with the line they come from, left to right;
\* none for a line that is blank, a header, without a name, or noise
LineSubItems(raw) ==
    IF Outcome(raw) = "emit"
    THEN LET ps == Parts2(NamePart(raw))
         IN  SelectSeq([k \in DOMAIN ps |-> [name |-> Strip(ps[k]), original |-> raw]],
                       Named)
    ELSE <<>>

RECURSIVE SubItems(_)
\* the sub-items of the lines ls in input order
SubItems(ls) ==
    IF ls = <<>> THEN <<>>
    ELSE SubItems(Take(ls, Len(ls) - 1)) \o LineSubItems(ls[Len(ls)])

RECURSIVE FirstOccurrences(_)
\* the sub-items that no earlier sub-item equals in lowercase form
FirstOccurrences(subs) ==
    IF subs = <<>> THEN <<>>
    ELSE LET front == Take(subs, Len(subs) - 1)
             last == subs[Len(subs)]
         IN  IF \E j \in DOMAIN front : lower(front[j].name) = lower(last.name)
             THEN FirstOccurrences(front)
             ELSE Append(FirstOccurrences(front), last)

\* C15: the candidates are, in input order, the first occurrences of the
\* sub-items of the lines that emit, each with the casing and the original
\* of its first occurrence; only an emitted sub-item suppresses a later one.
C15_FirstOccurrenceWins ==
    [k \in DOMAIN candidates |->
        [name |-> candidates[k].name, original |-> candidates[k].original]]
    = FirstOccurrences(SubItems(Take(lines, pos)))

NameFalooda == <<"F", "a", "l", "o", "o", "d", "a">>

\* "Tea, Coffee, Lassi" then "lassi, COFFEE, Falooda, coffee": the casing
\* and the original of the first line are kept, Falooda is of the second
C15_Witness ==
    /\ pc = "done"
    /\ lines = <<LineTea, LineDupes>>
    /\ Names = <<NameTea, NameCoffee, NameLassi, NameFalooda>>
    /\ candidates[2].original = LineTea
    /\ candidates[4].original = LineDupes

\* C16: the score of every candidate lies in [0, 1] and is the letter
\* density of the candidate's own name rounded to 2 decimal places: in
\* hundredths, it is within one half of 100 * letters / length.
C16_ScoreOfName ==
    \A k \in DOMAIN candidates :
        LET name == candidates[k].name
            d == 100 * Letters(name) - candidates[k].score * Len(name)
        IN  /\ candidates[k].score \in 0..100
            /\ 2 * d <= Len(name)
            /\ -2 * d <= Len(name)

\* "Paneer Tikka" with a price after it scores 0.92 on its name, not on the line, and
\* the two sub-items of "Samosa, ..." score 1.0 and 0.0 each on its own
C16_Witness ==
    /\ pc = "done"
    /\ lines = <<LinePaneer, LineDevaPrice>>
    /\ Len(candidates) = 3
    /\ candidates[1].score = 92
    /\ candidates[2].score = 100
    /\ candidates[3].score = 0

\* C17 as stated: a job whose status is "completed" has every one of its
\* items in status "done".
C17_CompletedAllDone ==
    \A j \in DOMAIN JOBS :
        JOBS[j].status = "completed" =>
            \A k \in DOMAIN JOBS[j].items : JOBS[j].items[k].status = "done"

\* no task of the job j is waiting or running
NoTaskLeft(j) ==
    \A r \in DOMAIN tasks : \A k \in DOMAIN tasks[r] : tasks[r][k].job # j

\* C18 as stated, for the runs that end: once every task scheduled for a
\* job has run to completion, the status of the job is "completed".
C18_FinishedJobCompleted ==
    \A j \in DOMAIN JOBS : NoTaskLeft(j) => JOBS[j].status = "completed"

====
